---- MODULE Spec2Model ----
(***************************************************************************)
(* A model of griptape's FileManager tool and TextManagerRamp.             *)
(*                                                                         *)
(* Strings that are used as paths are sequences of one-character strings,  *)
(* so that os.path.join, os.path.dirname and pathlib's normalisation work  *)
(* on characters as the library does.  Text contents are sequences of code *)
(* points and file contents are sequences of bytes, so that str.encode()   *)
(* is a real conversion.  The filesystem is a function from the resolved   *)
(* absolute location of a node (a sequence of names, <<>> for the root) to *)
(* the node: a directory, or a file with its bytes.                        *)
(***************************************************************************)
EXTENDS Integers, Sequences, FiniteSets, TLC

VARIABLES
    workdir,    \* FileManager.workdir, or NoInstance before construction
    fs,         \* the filesystem
    records,    \* the storage driver's saved texts; a record's key is its index
    last,       \* the last call: operation, arguments, outcome, and what it did
    written,    \* location -> what the _save_to_disk calls that opened it did
    ops         \* number of adapter calls made so far

vars == <<workdir, fs, records, last, written, ops>>

\* Bounds of the model.
MaxOps == 2
MaxPaths == 2

NoInstance == <<"NoInstance">>
None == "None"

-----------------------------------------------------------------------------
(* Characters and strings *)

Sep == "/"

Str_w      == <<"/", "w">>
Str_root   == <<"/">>
Str_rel    == <<"w">>
Str_empty  == <<>>
Str_f      == <<"f">>
Str_d      == <<"d">>
Str_df     == <<"d", "/", "f">>
Str_dotf   == <<".", "/", "f">>
Str_fg     == <<"f", "/", "g">>
Str_abs_o  == <<"/", "o">>
Str_up_o   == <<".", ".", "/", "o">>
Str_up     == <<".", ".">>
Str_abs2_o == <<"/", "/", "o">>
Str_def    == <<"d", "/", "e", "/", "f">>
Str_a      == <<"a">>
Str_b      == <<"b">>

StartsWithSep(s) == Len(s) > 0 /\ s[1] = Sep
EndsWithSep(s) == Len(s) > 0 /\ s[Len(s)] = Sep
AllSep(s) == \A i \in 1..Len(s) : s[i] = Sep

\* str.rfind("/") + 1: the index of the last separator, 0 when there is none.
rfindSep(s) ==
    LET hits == {i \in 1..Len(s) : s[i] = Sep}
    IN  IF hits = {} THEN 0 ELSE CHOOSE i \in hits : \A j \in hits : j <= i

\* str.rstrip("/")
RECURSIVE rstripSep(_)
rstripSep(s) == IF EndsWithSep(s) THEN rstripSep(SubSeq(s, 1, Len(s) - 1)) ELSE s

\* posixpath.join of two parts.
join(a, b) ==
    IF StartsWithSep(b) THEN b
    ELSE IF a = <<>> \/ EndsWithSep(a) THEN a \o b
    ELSE a \o <<Sep>> \o b

\* posixpath.join of three parts: the parts are folded from the left.
join3(a, b, c) == join(join(a, b), c)

\* posixpath.split: <<head, tail>>.
split(p) ==
    LET i == rfindSep(p)
        head == SubSeq(p, 1, i)
        tail == SubSeq(p, i + 1, Len(p))
    IN  <<IF head # <<>> /\ ~AllSep(head) THEN rstripSep(head) ELSE head, tail>>

\* posixpath.dirname
dirname(p) == split(p)[1]

\* The names between the separators of a path string, empty names included.
RECURSIVE Components(_)
Components(s) ==
    LET hits == {i \in 1..Len(s) : s[i] = Sep}
    IN  IF hits = {} THEN <<s>>
        ELSE LET i == CHOOSE k \in hits : \A j \in hits : k <= j
             IN  <<SubSeq(s, 1, i - 1)>> \o Components(SubSeq(s, i + 1, Len(s)))

Dot == <<".">>
DotDot == <<".", ".">>

\* Path(workdir).is_absolute() of a POSIX path: the path has a root.
is_absolute(p) == StartsWithSep(p)

\* str(Path(p)): pathlib drops empty and "." names and a trailing separator,
\* keeps ".." names, and writes the empty path as ".".  The root of a path is
\* "//" when the path starts with exactly two separators, "/" when it starts
\* with one or with three or more, and empty otherwise.
RECURSIVE JoinNames(_)
JoinNames(names) ==
    IF names = <<>> THEN <<>>
    ELSE IF Len(names) = 1 THEN names[1]
    ELSE names[1] \o <<Sep>> \o JoinNames(Tail(names))

PathStr(p) ==
    LET names == SelectSeq(Components(p), LAMBDA n : n # <<>> /\ n # Dot)
        root == IF Len(p) >= 2 /\ p[1] = Sep /\ p[2] = Sep /\ (Len(p) = 2 \/ p[3] # Sep)
                THEN <<Sep, Sep>>
                ELSE IF StartsWithSep(p) THEN <<Sep>> ELSE <<>>
    IN  IF root = <<>> /\ names = <<>> THEN Dot ELSE root \o JoinNames(names)

-----------------------------------------------------------------------------
(* The filesystem *)

DirNode == [kind |-> "dir"]
FileNode(bytes) == [kind |-> "file", data |-> bytes]

Exists(f, loc) == loc \in DOMAIN f
IsDir(f, loc) == Exists(f, loc) /\ f[loc].kind = "dir"
IsFile(f, loc) == Exists(f, loc) /\ f[loc].kind = "file"

Parent(loc) == IF loc = <<>> THEN <<>> ELSE SubSeq(loc, 1, Len(loc) - 1)

Put(f, loc, node) == [l \in DOMAIN f \cup {loc} |-> IF l = loc THEN node ELSE f[l]]

\* The kernel's walk over the names of an absolute path, from location cur:
\* [err |-> "ok", loc |-> the location reached] or [err |-> the errno].
RECURSIVE Walk(_, _, _)
Walk(f, cur, names) ==
    IF names = <<>> THEN [err |-> "ok", loc |-> cur]
    ELSE IF ~IsDir(f, cur) THEN [err |-> "ENOTDIR"]
    ELSE LET n == Head(names)
         IN  IF n = <<>> \/ n = Dot THEN Walk(f, cur, Tail(names))
             ELSE IF n = DotDot THEN Walk(f, Parent(cur), Tail(names))
             ELSE IF ~Exists(f, cur \o <<n>>) THEN [err |-> "ENOENT"]
             ELSE Walk(f, cur \o <<n>>, Tail(names))

\* Resolution of a whole path string.  Every path the adapters hand to the
\* system is absolute, workdir being absolute; a relative one has no
\* location in the model.
Lookup(f, p) ==
    IF p = <<>> \/ ~StartsWithSep(p) THEN [err |-> "ENOENT"]
    ELSE Walk(f, <<>>, Components(p))

exists(f, p) == Lookup(f, p).err = "ok"
isdir(f, p) == LET At(r) == r.err = "ok" /\ IsDir(f, r.loc) IN At(Lookup(f, p))

\* The location a path names for creation: its parent must resolve to a
\* directory and its last name must be a proper name.
\* [err |-> "ok", loc |-> location, there |-> the node exists] or an errno.
Target(f, p) ==
    IF p = <<>> \/ ~StartsWithSep(p) THEN [err |-> "ENOENT"]
    ELSE LET In(par, n) ==
                 IF par.err # "ok" THEN par
                 ELSE IF ~IsDir(f, par.loc) THEN [err |-> "ENOTDIR"]
                 ELSE IF n = <<>> \/ n = Dot \/ n = DotDot
                      THEN [err |-> "ok", loc |-> Walk(f, par.loc, <<n>>).loc, there |-> TRUE]
                 ELSE [err |-> "ok", loc |-> par.loc \o <<n>>,
                       there |-> Exists(f, par.loc \o <<n>>)]
             Of(names) == In(Walk(f, <<>>, SubSeq(names, 1, Len(names) - 1)), names[Len(names)])
         IN  Of(Components(p))

\* os.mkdir(p): [err |-> "ok" or the errno, fs |-> the filesystem after].
mkdir(f, p) ==
    LET At(t) ==
            IF t.err # "ok" THEN [err |-> t.err, fs |-> f]
            ELSE IF t.there THEN [err |-> "EEXIST", fs |-> f]
            ELSE [err |-> "ok", fs |-> Put(f, t.loc, DirNode)]
    IN  At(Target(f, p))

\* os.mkdir in the place of os.makedirs: an existing directory is an error and
\* no parent is made.
makedirs_as_mkdir(f, name) == mkdir(f, name)

\* os.makedirs(name, exist_ok=True): the missing directories of name are made
\* from the outermost in; an existing directory is accepted, anything else in
\* the way is an error.  The directories made before an error stay.
RECURSIVE makedirs(_, _)
makedirs(f, name) ==
    LET Last(f1, m) ==
            IF m.err = "ok" THEN m
            ELSE IF isdir(f1, name) THEN [err |-> "ok", fs |-> f1]
            ELSE m
        After(rec, descend, tail) ==
            IF rec.err \notin {"ok", "EEXIST"} THEN rec
            ELSE IF descend /\ tail = Dot THEN [err |-> "ok", fs |-> rec.fs]
            ELSE Last(rec.fs, mkdir(rec.fs, name))
        Descend(head, tail, descend) ==
            After(IF descend THEN makedirs(f, head) ELSE [err |-> "ok", fs |-> f],
                  descend, tail)
        Parts(s) == Descend(s[1], s[2], s[1] # <<>> /\ s[2] # <<>> /\ ~exists(f, s[1]))
        Strip(s1) == Parts(IF s1[2] = <<>> THEN split(s1[1]) ELSE s1)
    IN  Strip(split(name))

\* open(p, "ab") in the place of open(p, "wb"): a file that exists keeps its
\* bytes, and what is written follows them.
open_ab(f, p) ==
    LET At(t) ==
            IF t.err # "ok" THEN [err |-> t.err, fs |-> f]
            ELSE IF t.there /\ IsDir(f, t.loc) THEN [err |-> "EISDIR", fs |-> f]
            ELSE IF t.there THEN [err |-> "ok", loc |-> t.loc, fs |-> f]
            ELSE [err |-> "ok", loc |-> t.loc, fs |-> Put(f, t.loc, FileNode(<<>>))]
    IN  At(Target(f, p))

\* open(p, "wb"): creates or truncates the file.
open_wb(f, p) ==
    LET At(t) ==
            IF t.err # "ok" THEN [err |-> t.err, fs |-> f]
            ELSE IF t.there /\ IsDir(f, t.loc) THEN [err |-> "EISDIR", fs |-> f]
            ELSE [err |-> "ok", loc |-> t.loc, fs |-> Put(f, t.loc, FileNode(<<>>))]
    IN  At(Target(f, p))

\* open(p, "rb") and read(): the bytes of the file.
read_rb(f, p) ==
    LET At(r) ==
            IF r.err # "ok" THEN [err |-> r.err]
            ELSE IF IsDir(f, r.loc) THEN [err |-> "EISDIR"]
            ELSE [err |-> "ok", data |-> f[r.loc].data]
    IN  At(Lookup(f, p))

-----------------------------------------------------------------------------
(* Values and artifacts *)

StrValue(cps) == [kind |-> "str", cps |-> cps]
BytesValue(bytes) == [kind |-> "bytes", data |-> bytes]
OtherValue == [kind |-> "other"]

Text_x == <<97>>        \* "a": one byte in UTF-8
Text_y == <<233>>       \* U+00E9: two bytes in UTF-8
Text_s == <<55296>>     \* a lone surrogate, U+D800: str.encode() raises

IsSurrogate(cp) == cp >= 55296 /\ cp <= 57343

\* The UTF-8 bytes of one code point.
EncodeCp(cp) ==
    IF cp < 128 THEN <<cp>>
    ELSE IF cp < 2048 THEN <<192 + (cp \div 64), 128 + (cp % 64)>>
    ELSE IF cp < 65536
         THEN <<224 + (cp \div 4096), 128 + ((cp \div 64) % 64), 128 + (cp % 64)>>
    ELSE <<240 + (cp \div 262144), 128 + ((cp \div 4096) % 64),
           128 + ((cp \div 64) % 64), 128 + (cp % 64)>>

RECURSIVE EncodeAll(_)
EncodeAll(cps) == IF cps = <<>> THEN <<>> ELSE EncodeCp(Head(cps)) \o EncodeAll(Tail(cps))

\* value.encode() if isinstance(value, str) else value, and whether
\* file.write() accepts it: str.encode() raises on a surrogate, and write()
\* raises on a value that is not bytes.
Encodable(value) ==
    \/ value.kind = "bytes"
    \/ value.kind = "str" /\ \A i \in 1..Len(value.cps) : ~IsSurrogate(value.cps[i])

\* value.encode("latin-1") in the place of value.encode(): one byte per code
\* point.
encode_latin1(value) == IF value.kind = "str" THEN value.cps ELSE value.data

encode(value) == IF value.kind = "str" THEN EncodeAll(value.cps) ELSE value.data

TextArtifact(v) == [type |-> "TextArtifact", value |-> v]
ErrorArtifact(v) == [type |-> "ErrorArtifact", value |-> v]
InfoArtifact(v) == [type |-> "InfoArtifact", value |-> v]
ListArtifact(v) == [type |-> "ListArtifact", value |-> v]
BlobArtifact(v, n) == [type |-> "BlobArtifact", value |-> v, name |-> n]

\* An artifact held by a memory: its name and its value.
MemArtifact(n, v) == [name |-> n, value |-> v]

Returned(a) == [raised |-> FALSE, ret |-> a]
Raised(e) == [raised |-> TRUE, exc |-> e]

-----------------------------------------------------------------------------
(* FileManager *)

\* workdir's default, os.getcwd(): the absolute path of the current directory.
getcwd == Str_w

\* The validator with its test inverted: it raises for an absolute workdir.
validate_workdir_inverted(wd) == is_absolute(wd)

\* validate_workdir: TRUE when the constructor raises ValueError.
validate_workdir(wd) == ~is_absolute(wd)

\* _save_to_disk(path, value):
\* [raised, fs |-> the filesystem after, log |-> the file it opened, if any].
_save_to_disk(f, path, value) ==
    LET Write(o) ==
            IF o.err # "ok" THEN [raised |-> TRUE, fs |-> o.fs, log |-> <<>>]
            ELSE IF ~Encodable(value)
                 THEN [raised |-> TRUE, fs |-> o.fs,
                       log |-> <<[loc |-> o.loc, ok |-> FALSE, data |-> <<>>]>>]
            ELSE [raised |-> FALSE,
                  fs |-> Put(o.fs, o.loc, FileNode(o.fs[o.loc].data \o encode(value))),
                  log |-> <<[loc |-> o.loc, ok |-> TRUE, data |-> encode(value)]>>]
        Open(md) ==
            IF md.err # "ok" THEN [raised |-> TRUE, fs |-> md.fs, log |-> <<>>]
            ELSE Write(open_wb(md.fs, path))
    IN  Open(makedirs(f, dirname(path)))

\* FileLoader(workdir).load(path): the file's bytes as a blob; a missing file
\* raises FileNotFoundError, any other failure to open raises OSError.
FileLoader_load(f, wd, path) ==
    LET Read(r) ==
            IF r.err = "ENOENT" THEN Raised("FileNotFoundError")
            ELSE IF r.err # "ok" THEN Raised("OSError")
            ELSE Returned(BlobArtifact(r.data, split(path)[2]))
    IN  Read(read_rb(f, join(wd, path)))

NotFoundMessage(path) == [msg |-> "file in path not found", path |-> path]
LoadErrorMessage(e) == [msg |-> "error loading file", exc |-> e]

\* The loop of load_files_from_disk over the paths left, with the elements
\* loaded so far and the paths handed to the loader so far.
RECURSIVE LoadLoop(_, _, _, _, _)
LoadLoop(f, wd, paths, acc, calls) ==
    IF paths = <<>> THEN [out |-> Returned(ListArtifact(acc)), calls |-> calls]
    ELSE LET Body(path, r, called) ==
                 IF r.raised /\ r.exc = "FileNotFoundError"
                 THEN [out |-> Returned(ErrorArtifact(NotFoundMessage(path))), calls |-> called]
                 ELSE IF r.raised
                 THEN [out |-> Returned(ErrorArtifact(LoadErrorMessage(r.exc))), calls |-> called]
                 ELSE LoadLoop(f, wd, Tail(paths), Append(acc, r.ret), called)
         IN  Body(Head(paths), FileLoader_load(f, wd, PathStr(Head(paths))),
                  Append(calls, Head(paths)))

\* The loop with "continue" in the place of the return for a missing file:
\* the files that load are returned.
load_files_skipping_missing(f, wd, paths) ==
    LoadLoop(f, wd,
             SelectSeq(paths, LAMBDA p : FileLoader_load(f, wd, PathStr(p)) # Raised("FileNotFoundError")),
             <<>>, <<>>)

\* The loop with insert(0, ...) in the place of append: the elements come in
\* the reverse order of the paths.
load_files_prepending(f, wd, paths) ==
    LET Rev(q) == [i \in 1..Len(q) |-> q[Len(q) + 1 - i]]
        Turn(r) ==
            IF r.out.ret.type = "ListArtifact"
            THEN [out |-> Returned(ListArtifact(Rev(r.out.ret.value))), calls |-> r.calls]
            ELSE r
    IN  Turn(LoadLoop(f, wd, paths, <<>>, <<>>))

load_files_from_disk(f, wd, paths) == LoadLoop(f, wd, paths, <<>>, <<>>)

Saved == InfoArtifact("saved successfully")
WriteError == ErrorArtifact("error writing file to disk")

save_content_to_file(f, wd, path, content) ==
    LET Result(full_path, r) ==
            [out |-> Returned(IF r.raised THEN WriteError ELSE Saved),
             fs |-> r.fs, log |-> r.log, targets |-> <<full_path>>]
        Save(full_path) == Result(full_path, _save_to_disk(f, full_path, content))
    IN  Save(join(wd, path))

\* The memories of the tool and what each namespace holds.
MemoryNames == {"m"}

Namespace(ns) ==
    CASE ns = "one" -> <<MemArtifact(Str_a, StrValue(Text_x))>>
      [] ns = "two" -> <<MemArtifact(Str_a, StrValue(Text_x)),
                         MemArtifact(Str_b, BytesValue(<<0, 255>>))>>
      [] ns = "dup" -> <<MemArtifact(Str_a, StrValue(Text_x)),
                         MemArtifact(Str_a, StrValue(Text_y))>>
      [] ns = "bad" -> <<MemArtifact(Str_a, StrValue(Text_y)),
                         MemArtifact(Str_b, OtherValue)>>
      [] OTHER -> <<>>

\* find_input_memory(name): the memory of that name, None when the tool has
\* none of that name; the lookup itself may raise.
find_input_memory(name, fault) ==
    IF fault THEN Raised("Exception")
    ELSE Returned(IF name \in MemoryNames THEN name ELSE None)

\* memory.load_artifacts(namespace): the artifacts, or an exception.
load_artifacts(memory, ns, fault) ==
    IF fault THEN Raised("Exception") ELSE Returned(Namespace(ns))

\* f"{file_name}-{a.name}": the two parts of the name exchanged.
PrefixedName_swapped(a, file_name) == file_name \o <<"-">> \o a.name

\* f"{a.name}-{file_name}"
PrefixedName(a, file_name) == a.name \o <<"-">> \o file_name

\* The loop of the multi-artifact branch over the artifacts left: it stops at
\* the first _save_to_disk that raises.
RECURSIVE SaveAll(_, _, _, _, _, _, _)
SaveAll(f, wd, dir_name, file_name, arts, log, targets) ==
    IF arts = <<>> THEN [raised |-> FALSE, fs |-> f, log |-> log, targets |-> targets]
    ELSE LET Body(path, r) ==
                 IF r.raised
                 THEN [raised |-> TRUE, fs |-> r.fs, log |-> log \o r.log,
                       targets |-> Append(targets, path)]
                 ELSE SaveAll(r.fs, wd, dir_name, file_name, Tail(arts), log \o r.log,
                              Append(targets, path))
             Save(path) == Body(path, _save_to_disk(f, path, Head(arts).value))
         IN  Save(join3(wd, dir_name, PrefixedName(Head(arts), file_name)))

save_memory_artifacts_to_disk(f, wd, memory_name, ns, dir_name, file_name, mfault, afault) ==
    LET Untouched(out) == [out |-> out, fs |-> f, log |-> <<>>, targets |-> <<>>]
        Result(r, targets) ==
            [out |-> Returned(IF r.raised THEN WriteError ELSE Saved),
             fs |-> r.fs, log |-> r.log, targets |-> targets]
        Many(r) == Result(r, r.targets)
        One(path, value) == Result(_save_to_disk(f, path, value), <<path>>)
        Loaded(artifacts) ==
            IF artifacts.raised THEN Untouched(artifacts)
            ELSE IF Len(artifacts.ret) = 0
            THEN Untouched(Returned(ErrorArtifact("no artifacts found")))
            ELSE IF Len(artifacts.ret) = 1
            THEN One(join3(wd, dir_name, file_name), artifacts.ret[1].value)
            ELSE Many(SaveAll(f, wd, dir_name, file_name, artifacts.ret, <<>>, <<>>))
        Found(memory) ==
            IF memory.raised THEN Untouched(memory)
            ELSE IF memory.ret = None
            THEN Untouched(Returned(ErrorArtifact("memory not found")))
            ELSE Loaded(load_artifacts(memory.ret, ns, afault))
    IN  Found(find_input_memory(memory_name, mfault))

-----------------------------------------------------------------------------
(* TextManagerRamp and its storage driver *)

\* driver.save(text): the key of the new record, or an exception.
driver_save(recs, text, fault) ==
    IF fault THEN [raised |-> TRUE, exc |-> "Exception", records |-> recs]
    ELSE [raised |-> FALSE, ret |-> Len(recs) + 1, records |-> Append(recs, text)]

\* driver.query_record(id, query) and driver.summarize_record(id): a text
\* artifact for a record the driver holds, an error artifact for one it does
\* not, or an exception.
driver_query_record(recs, id, query, fault) ==
    IF fault THEN Raised("Exception")
    ELSE IF id \in 1..Len(recs)
    THEN Returned(TextArtifact([answer |-> query, of |-> recs[id]]))
    ELSE Returned(ErrorArtifact("record not found"))

driver_summarize_record(recs, id, fault) ==
    IF fault THEN Raised("Exception")
    ELSE IF id \in 1..Len(recs)
    THEN Returned(TextArtifact([summary |-> recs[id]]))
    ELSE Returned(ErrorArtifact("record not found"))

\* J2("ramps/storage.j2").render(...): the reference string, which names the
\* storage, the tool, the activity and the key.
Render(storage_name, tool_name, activity_name, key) ==
    [template |-> "ramps/storage.j2", storage_name |-> storage_name,
     tool_name |-> tool_name, activity_name |-> activity_name, key |-> key]

RampName == "TextManagerRamp"

\* @activity(config=...) of griptape.core.decorators, which the ramp imports:
\* the callable knows the object it is bound to (__self__) and carries the
\* config dict it was declared with.
core_activity(tool_name, config) == [tool |-> tool_name, config |-> config]

\* @activity(config=...) of griptape.utils.decorators, which FileManager
\* imports.  Whether this decorator leaves the config as it was declared or
\* adds the name of the method to it is not fixed by the sources at hand:
\* both outcomes are kept, chosen by named.
utils_activity(tool_name, func_name, config, named) ==
    [tool |-> tool_name,
     config |-> IF named
                THEN [name |-> func_name, description |-> config.description,
                      schema |-> config.schema]
                ELSE config]

\* The configs the activities are declared with; a schema is the keys of its
\* dict, or the bare type it is.
load_files_from_disk_config ==
    [description |-> "Can be used to load files from disk", schema |-> <<"paths">>]

save_content_to_file_config ==
    [description |-> "Can be used to save content to a file",
     schema |-> <<"path", "content">>]

search_record_config ==
    [name |-> "query_record",
     description |-> "Can be used to query a storage record for any content",
     schema |-> <<"id", "query">>]

summarize_record_config ==
    [name |-> "summarize_record",
     description |-> "Can be used to generate a summary of a storage record",
     schema |-> "str"]

\* process_output without the test of the value's type: every value is saved.
process_output_untyped(recs, tool_activity, value, fault) ==
    LET Output(key) ==
            IF key.raised
            THEN [out |-> Raised(key.exc), records |-> key.records, saves |-> 1]
            ELSE IF "name" \notin DOMAIN tool_activity.config
            THEN [out |-> Raised("KeyError"), records |-> key.records, saves |-> 1]
            ELSE [out |-> Returned(TextArtifact(
                             Render(RampName, tool_activity.tool,
                                    tool_activity.config.name, key.ret))),
                  records |-> key.records, saves |-> 1]
    IN  Output(driver_save(recs, value.value, fault))

\* process_output: the text is saved first; the arguments of render are
\* evaluated next, and tool_activity.config["name"] raises KeyError for a
\* config without that key, the text being saved already.
process_output(recs, tool_activity, value, fault) ==
    IF value.type = "TextArtifact"
    THEN LET Output(key) ==
                 IF key.raised
                 THEN [out |-> Raised(key.exc), records |-> key.records, saves |-> 1]
                 ELSE IF "name" \notin DOMAIN tool_activity.config
                 THEN [out |-> Raised("KeyError"), records |-> key.records, saves |-> 1]
                 ELSE [out |-> Returned(TextArtifact(
                                  Render(RampName, tool_activity.tool,
                                         tool_activity.config.name, key.ret))),
                       records |-> key.records, saves |-> 1]
         IN  Output(driver_save(recs, value.value, fault))
    ELSE [out |-> Returned(value), records |-> recs, saves |-> 0]

search_record(recs, id, query, fault) == driver_query_record(recs, id, query, fault)

summarize_record(recs, id, fault) == driver_summarize_record(recs, id, fault)

-----------------------------------------------------------------------------
(* The inputs the calls are made with *)

Str_n == <<"n">>

WorkdirArgs == {Str_w, Str_root, Str_rel, Str_empty}
SavePaths == {Str_f, Str_df, Str_dotf, Str_fg, Str_abs_o, Str_up_o, Str_d, Str_abs2_o, Str_def}
Contents == {StrValue(Text_x), StrValue(Text_y), StrValue(Text_s)}
LoadPaths == {Str_f, Str_d, Str_n, Str_abs_o}
MemoryArgs == {"m", "x"}
NamespaceArgs == {"none", "one", "two", "dup", "bad"}
DirNames == {Str_d, Str_up}
FileNames == {Str_f, Str_abs_o}
RecordIds == {1, 2}
Queries == {"q"}
\* The tool activities process_output is called with, each with the artifact
\* types its method returns.
Activities ==
    <<[tool_activity |-> utils_activity("FileManager", "load_files_from_disk",
                                        load_files_from_disk_config, FALSE),
       returns |-> {"ListArtifact", "ErrorArtifact"}],
      [tool_activity |-> utils_activity("FileManager", "load_files_from_disk",
                                        load_files_from_disk_config, TRUE),
       returns |-> {"ListArtifact", "ErrorArtifact"}],
      [tool_activity |-> utils_activity("FileManager", "save_content_to_file",
                                        save_content_to_file_config, FALSE),
       returns |-> {"ErrorArtifact", "InfoArtifact"}],
      [tool_activity |-> utils_activity("FileManager", "save_content_to_file",
                                        save_content_to_file_config, TRUE),
       returns |-> {"ErrorArtifact", "InfoArtifact"}],
      [tool_activity |-> core_activity(RampName, search_record_config),
       returns |-> {"TextArtifact", "ErrorArtifact"}],
      [tool_activity |-> core_activity(RampName, summarize_record_config),
       returns |-> {"TextArtifact", "ErrorArtifact"}]>>
OutputValues ==
    <<TextArtifact(Text_x), TextArtifact(Text_y), ErrorArtifact("e"), InfoArtifact("i"),
      ListArtifact(<<>>)>>

RECURSIVE SeqsUpTo(_, _)
SeqsUpTo(S, n) ==
    IF n = 0 THEN {<<>>}
    ELSE SeqsUpTo(S, n - 1) \cup {Append(q, x) : q \in {r \in SeqsUpTo(S, n - 1) : Len(r) = n - 1}, x \in S}

\* The record of the _save_to_disk calls that opened a file, by location:
\* whether the last of them wrote its value (ok), whether any of them did
\* (succeeded), and the bytes of the last one that did (data).
\* The path lists load_files_from_disk is called with: every path a save is
\* made with, alone, and every list of up to MaxPaths of LoadPaths.
LoadLists == {<<p>> : p \in SavePaths} \cup SeqsUpTo(LoadPaths, MaxPaths)

RECURSIVE ApplyLog(_, _)
ApplyLog(w, log) ==
    IF log = <<>> THEN w
    ELSE LET e == Head(log)
             had == e.loc \in DOMAIN w /\ w[e.loc].succeeded
         IN  ApplyLog([l \in DOMAIN w \cup {e.loc} |->
                          IF l # e.loc THEN w[l]
                          ELSE [ok |-> e.ok,
                                succeeded |-> e.ok \/ had,
                                data |-> IF e.ok THEN e.data
                                         ELSE IF had THEN w[e.loc].data ELSE <<>>]],
                      Tail(log))

InitFS ==
    [l \in {<<>>, <<Str_rel>>, <<<<"o">>>>} |->
        IF l = <<<<"o">>>> THEN FileNode(<<122>>) ELSE DirNode]

Init ==
    /\ workdir = NoInstance
    /\ fs = InitFS
    /\ records = <<>>
    /\ last = [op |-> "none"]
    /\ written = [l \in {} |-> [ok |-> TRUE, succeeded |-> TRUE, data |-> <<>>]]
    /\ ops = 0

\* FileManager(workdir=wd): the validator raises, or the instance exists.
Construct(wd) ==
    /\ workdir = NoInstance
    /\ IF validate_workdir(wd)
       THEN /\ workdir' = NoInstance
            /\ last' = [op |-> "construct", workdir |-> wd, out |-> Raised("ValueError")]
       ELSE /\ workdir' = wd
            /\ last' = [op |-> "construct", workdir |-> wd, out |-> Returned(None)]
    /\ UNCHANGED <<fs, records, written, ops>>

ConstructGiven == \E wd \in WorkdirArgs : Construct(wd)

ConstructDefault == Construct(getcwd)

LoadFiles ==
    /\ workdir # NoInstance
    /\ ops < MaxOps
    /\ \E paths \in LoadLists :
          LET Done(r) ==
                  last' = [op |-> "load_files_from_disk", paths |-> paths, out |-> r.out,
                           calls |-> r.calls]
          IN  Done(load_files_from_disk(fs, workdir, paths))
    /\ ops' = ops + 1
    /\ UNCHANGED <<workdir, fs, records, written>>

SaveContent ==
    /\ workdir # NoInstance
    /\ ops < MaxOps
    /\ \E path \in SavePaths, content \in Contents :
          LET Done(r) ==
                  /\ fs' = r.fs
                  /\ written' = ApplyLog(written, r.log)
                  /\ last' = [op |-> "save_content_to_file", path |-> path,
                              content |-> content, out |-> r.out, log |-> r.log,
                              targets |-> r.targets]
          IN  Done(save_content_to_file(fs, workdir, path, content))
    /\ ops' = ops + 1
    /\ UNCHANGED <<workdir, records>>

SaveMemory ==
    /\ workdir # NoInstance
    /\ ops < MaxOps
    /\ \E memory_name \in MemoryArgs, ns \in NamespaceArgs, dir_name \in DirNames,
          file_name \in FileNames, mfault \in BOOLEAN, afault \in BOOLEAN :
          LET Done(r) ==
                  /\ fs' = r.fs
                  /\ written' = ApplyLog(written, r.log)
                  /\ last' = [op |-> "save_memory_artifacts_to_disk",
                              memory_name |-> memory_name, ns |-> ns, dir_name |-> dir_name,
                              file_name |-> file_name, out |-> r.out, log |-> r.log,
                              targets |-> r.targets]
          IN  Done(save_memory_artifacts_to_disk(fs, workdir, memory_name, ns, dir_name,
                                                 file_name, mfault, afault))
    /\ ops' = ops + 1
    /\ UNCHANGED <<workdir, records>>

SearchRecord ==
    /\ ops < MaxOps
    /\ \E id \in RecordIds, query \in Queries, fault \in BOOLEAN :
          last' = [op |-> "search_record", id |-> id, query |-> query,
                   out |-> search_record(records, id, query, fault)]
    /\ ops' = ops + 1
    /\ UNCHANGED <<workdir, fs, records, written>>

SummarizeRecord ==
    /\ ops < MaxOps
    /\ \E id \in RecordIds, fault \in BOOLEAN :
          last' = [op |-> "summarize_record", id |-> id,
                   out |-> summarize_record(records, id, fault)]
    /\ ops' = ops + 1
    /\ UNCHANGED <<workdir, fs, records, written>>

ProcessOutput ==
    /\ ops < MaxOps
    /\ \E a \in DOMAIN Activities, i \in DOMAIN OutputValues, fault \in BOOLEAN :
          /\ Activities[a].tool_activity.tool = "FileManager" => workdir # NoInstance
          /\ LET Done(tool_activity, value, r) ==
                     /\ records' = r.records
                     /\ last' = [op |-> "process_output", tool_activity |-> tool_activity,
                                 returns |-> Activities[a].returns,
                                 value |-> value, out |-> r.out, saves |-> r.saves]
             IN  Done(Activities[a].tool_activity, OutputValues[i],
                      process_output(records, Activities[a].tool_activity,
                                     OutputValues[i], fault))
    /\ ops' = ops + 1
    /\ UNCHANGED <<workdir, fs, written>>

Next ==
    \/ ConstructGiven
    \/ ConstructDefault
    \/ LoadFiles
    \/ SaveContent
    \/ SaveMemory
    \/ SearchRecord
    \/ SummarizeRecord
    \/ ProcessOutput

Spec == Init /\ [][Next]_vars

-----------------------------------------------------------------------------
(* Properties *)

AdapterOps ==
    {"load_files_from_disk", "save_content_to_file", "save_memory_artifacts_to_disk",
     "search_record", "summarize_record", "process_output"}

\* C1: no exception propagates past an adapter method: every call of an
\* adapter method returns, whatever its collaborators do.
C1_NoExceptionPropagates == last.op \in AdapterOps => ~last.out.raised

\* C2: a FileManager constructed with a workdir that is not absolute fails
\* with a ValueError and no instance comes to exist, so the workdir of every
\* existing instance starts at the root.
C2_WorkdirAbsolute ==
    /\ workdir # NoInstance => Len(workdir) > 0 /\ workdir[1] = "/"
    /\ last.op = "construct" /\ (last.workdir = <<>> \/ last.workdir[1] # "/")
          => /\ last.out.raised
             /\ last.out.exc = "ValueError"
             /\ workdir = NoInstance

C2_Witness ==
    /\ last.op = "construct"
    /\ last.workdir = Str_rel
    /\ last.out.raised
    /\ workdir = NoInstance

\* Whether path p, given to load_files_from_disk, is the path of a file.
NamesFile(f, wd, p) ==
    LET At(r) == r.err = "ok" /\ IsFile(f, r.loc) IN At(Lookup(f, join(wd, PathStr(p))))

\* C3: load_files_from_disk of a list in which some path names no existing
\* file returns an ErrorArtifact and raises nothing, wherever in the list the
\* path is and whatever was saved before.
C3_MissingPathIsError ==
    (/\ last.op = "load_files_from_disk"
     /\ \E i \in 1..Len(last.paths) : ~NamesFile(fs, workdir, last.paths[i]))
        => /\ ~last.out.raised
           /\ last.out.ret.type = "ErrorArtifact"

\* A file was saved and then a list was loaded whose first path is that
\* file and whose second path names nothing.
C3_Witness ==
    /\ last.op = "load_files_from_disk"
    /\ Len(last.paths) = 2
    /\ NamesFile(fs, workdir, last.paths[1])
    /\ ~NamesFile(fs, workdir, last.paths[2])
    /\ last.paths[1] = Str_f
    /\ last.out.ret.type = "ErrorArtifact"

\* A load of one path returned a list of one element that holds the bytes.
LoadedExactly(out, bytes) ==
    /\ ~out.raised
    /\ out.ret.type = "ListArtifact"
    /\ Len(out.ret.value) = 1
    /\ out.ret.value[1].value = bytes

\* C4: when save_content_to_file(path, content) returns an InfoArtifact, a
\* load_files_from_disk of that one path, made next on the same FileManager,
\* returns a ListArtifact with one element, which holds exactly the UTF-8
\* bytes of content.  Stated of the load made in the state every such save
\* leaves, and of every load call that follows such a save.
C4_RoundTrip ==
    /\ []((/\ last.op = "save_content_to_file"
           /\ last.out.ret.type = "InfoArtifact")
             => LoadedExactly(load_files_from_disk(fs, workdir, <<last.path>>).out,
                              EncodeAll(last.content.cps)))
    /\ [][(/\ last.op = "save_content_to_file"
           /\ last.out.ret.type = "InfoArtifact"
           /\ ops' = ops + 1
           /\ last'.op = "load_files_from_disk"
           /\ last'.paths = <<last.path>>)
             => LoadedExactly(last'.out, EncodeAll(last.content.cps))]_vars

\* A load of a path that pathlib rewrites returned the two bytes that the
\* save before it wrote for a text of one code point.
C4_Witness ==
    /\ last.op = "load_files_from_disk"
    /\ last.paths = <<Str_dotf>>
    /\ ops = 2
    /\ LoadedExactly(last.out, <<195, 169>>)

\* The location of a path by its names alone: empty and "." names dropped,
\* ".." names taken back.
RECURSIVE Normal(_, _)
Normal(loc, names) ==
    IF names = <<>> THEN loc
    ELSE IF Head(names) = <<>> \/ Head(names) = Dot THEN Normal(loc, Tail(names))
    ELSE IF Head(names) = DotDot THEN Normal(Parent(loc), Tail(names))
    ELSE Normal(loc \o <<Head(names)>>, Tail(names))

Location(p) == Normal(<<>>, Components(p))

Under(loc, base) == Len(base) <= Len(loc) /\ SubSeq(loc, 1, Len(base)) = base

\* C5: every file or directory the saves create or overwrite lies under
\* workdir: whatever is not under workdir is as it was before any save.
C5_WritesStayUnderWorkdir ==
    workdir # NoInstance =>
        \A loc \in DOMAIN fs :
            ~Under(loc, Location(workdir)) => loc \in DOMAIN InitFS /\ fs[loc] = InitFS[loc]

\* C6: process_output of a TextArtifact calls the driver's save once with the
\* value's text and, the save having returned a key, returns a new
\* TextArtifact of the rendered reference, which holds that key, whenever the
\* text is a result the tool activity returns or the activity's config has a
\* name; process_output of any other artifact, with any tool activity,
\* returns the value itself, calls no save and leaves the storage as it was.
C6_ProcessOutputDispatch ==
    [][(last'.op = "process_output" /\ ops' = ops + 1) =>
          IF last'.value.type = "TextArtifact"
          THEN /\ last'.saves = 1
               /\ ( /\ records' = Append(records, last'.value.value)
                    /\ \/ last'.value.type \in last'.returns
                       \/ "name" \in DOMAIN last'.tool_activity.config ) =>
                     /\ ~last'.out.raised
                     /\ last'.out.ret.type = "TextArtifact"
                     /\ last'.out.ret.value.template = "ramps/storage.j2"
                     /\ last'.out.ret.value.key = Len(records')
          ELSE /\ last'.saves = 0
               /\ records' = records
               /\ ~last'.out.raised
               /\ last'.out.ret = last'.value]_vars

\* A second text, the result of a ramp activity, was saved and the reference
\* to it returned.
C6_Witness ==
    /\ last.op = "process_output"
    /\ last.value.type = "TextArtifact"
    /\ last.value.type \in last.returns
    /\ last.saves = 1
    /\ ~last.out.raised
    /\ last.out.ret.type = "TextArtifact"
    /\ last.out.ret.value.key = 2
    /\ last.out.ret.value.activity_name = "summarize_record"
    /\ records = <<Text_x, Text_y>>

\* The locations a path passes through before its last name, by names alone.
RECURSIVE Passed(_, _)
Passed(loc, names) ==
    IF names = <<>> THEN {loc}
    ELSE {loc} \cup Passed(Normal(loc, <<Head(names)>>), Tail(names))

Parents(p) == Passed(<<>>, SubSeq(Components(p), 1, Len(Components(p)) - 1))

LastName(p) == Components(p)[Len(Components(p))]

\* Nothing stands in the way of writing a file at path p: its last name is a
\* name, nothing that is not a directory is at a location it passes through,
\* and no directory is at its own location.
Creatable(f, p) ==
    /\ LastName(p) \notin {<<>>, Dot, DotDot}
    /\ \A l \in Parents(p) : l \notin DOMAIN f \/ IsDir(f, l)
    /\ ~IsDir(f, Location(p))

\* What a save call is to write, in order: the path and the value of each file.
Intended(l, wd) ==
    IF l.op = "save_content_to_file"
    THEN <<[path |-> wd \o <<"/">> \o l.path, value |-> l.content]>>
    ELSE LET arts == Namespace(l.ns)
             dir == wd \o <<"/">> \o l.dir_name
         IN  IF Len(arts) = 1
             THEN <<[path |-> dir \o <<"/">> \o l.file_name, value |-> arts[1].value]>>
             ELSE [i \in 1..Len(arts) |->
                      [path |-> dir \o <<"/">> \o arts[i].name \o <<"-">> \o l.file_name,
                       value |-> arts[i].value]]

\* The bytes the file at the location of the i-th intended write is left with:
\* those of the last write intended for that location.
FinalBytes(w, i) ==
    LET same == {j \in 1..Len(w) : Location(w[j].path) = Location(w[i].path)}
        j == CHOOSE m \in same : \A n \in same : n <= m
    IN  IF w[j].value.kind = "str" THEN EncodeAll(w[j].value.cps) ELSE w[j].value.data

SaveStep(l) ==
    \/ l.op = "save_content_to_file"
    \/ /\ l.op = "save_memory_artifacts_to_disk"
       /\ ~l.out.raised
       /\ l.memory_name \in MemoryNames

RelativeArgs(l) ==
    IF l.op = "save_content_to_file" THEN ~StartsWithSep(l.path)
    ELSE ~StartsWithSep(l.dir_name) /\ ~StartsWithSep(l.file_name)

\* C7: a save whose relative path lies in directories that do not exist yet
\* makes the missing directories, writes the file and returns an
\* InfoArtifact, and so does a save into directories that exist; this for
\* every save that nothing stands in the way of and whose values can be
\* written.
C7_DirectoriesCreated ==
    [][(/\ ops' = ops + 1
        /\ SaveStep(last')
        /\ RelativeArgs(last')
        /\ \A i \in DOMAIN Intended(last', workdir) :
              /\ Creatable(fs, Intended(last', workdir)[i].path)
              /\ Encodable(Intended(last', workdir)[i].value))
          => /\ Intended(last', workdir) # <<>> => last'.out.ret = Saved
             /\ \A i \in DOMAIN Intended(last', workdir) :
                   /\ \A l \in Parents(Intended(last', workdir)[i].path) : IsDir(fs', l)
                   /\ IsFile(fs', Location(Intended(last', workdir)[i].path))
                   /\ fs'[Location(Intended(last', workdir)[i].path)].data
                         = FinalBytes(Intended(last', workdir), i)]_vars

\* Neither the directory d nor d/e existed, the file d/e/f was saved, and
\* both directories exist.
C7_Witness ==
    /\ last.op = "save_content_to_file"
    /\ last.path = Str_def
    /\ workdir = Str_w
    /\ ops = 1
    /\ last.out.ret = Saved
    /\ IsDir(fs, <<Str_rel, Str_d>>)
    /\ IsDir(fs, <<Str_rel, Str_d, <<"e">>>>)
    /\ <<Str_rel, Str_d>> \notin DOMAIN InitFS
    /\ IsFile(fs, <<Str_rel, Str_d, <<"e">>, Str_f>>)

\* The index of the first path of a list that names no file, 0 when all do.
FirstMissing(f, wd, paths) ==
    LET missing == {i \in 1..Len(paths) : ~NamesFile(f, wd, paths[i])}
    IN  IF missing = {} THEN 0 ELSE CHOOSE i \in missing : \A j \in missing : i <= j

\* The bytes of the file path p names.
BytesAt(f, wd, p) == f[Lookup(f, join(wd, PathStr(p))).loc].data

\* C8: load_files_from_disk returns, when every path loads, a ListArtifact
\* with one element per path in the order of the paths (an empty one for no
\* paths); when the k-th path is the first that fails to load, it returns an
\* ErrorArtifact alone, and the loader has been given the first k paths and
\* none after them.
C8_LoadAllOrNothing ==
    last.op = "load_files_from_disk" =>
        LET k == FirstMissing(fs, workdir, last.paths)
        IN  /\ ~last.out.raised
            /\ IF k = 0
               THEN /\ last.out.ret.type = "ListArtifact"
                    /\ Len(last.out.ret.value) = Len(last.paths)
                    /\ \A i \in 1..Len(last.paths) :
                          /\ last.out.ret.value[i].type = "BlobArtifact"
                          /\ last.out.ret.value[i].value = BytesAt(fs, workdir, last.paths[i])
                    /\ last.calls = last.paths
               ELSE /\ last.out.ret.type = "ErrorArtifact"
                    /\ "msg" \in DOMAIN last.out.ret.value
                    /\ last.calls = SubSeq(last.paths, 1, k)

\* Two files with different bytes were loaded in one call.
C8_Witness ==
    /\ last.op = "load_files_from_disk"
    /\ last.paths = <<Str_abs_o, Str_f>>
    /\ last.out.ret.type = "ListArtifact"
    /\ last.out.ret.value[1].value = <<122>>
    /\ last.out.ret.value[2].value = <<195, 169>>

\* The paths save_memory_artifacts_to_disk is to write for each artifact of a
\* namespace of two or more: workdir, dir_name and "<artifact name>-<file_name>"
\* joined.
NamedPaths(l, wd) ==
    [i \in 1..Len(Namespace(l.ns)) |->
        join3(wd, l.dir_name, Namespace(l.ns)[i].name \o <<"-">> \o l.file_name)]

Bytes(value) == IF value.kind = "str" THEN EncodeAll(value.cps) ELSE value.data

\* The i-th of the first n artifacts is the last of them written at its path.
LastAt(paths, n, i) == \A j \in (i + 1)..n : Location(paths[j]) # Location(paths[i])

\* C9: save_memory_artifacts_to_disk, when it returns: for a memory that is
\* not found, or a namespace with no artifacts, returns an ErrorArtifact and
\* leaves the filesystem as it was; for one artifact writes the one file
\* workdir/dir_name/file_name; for two or more writes the files
\* "<artifact name>-<file_name>" in the order of the artifacts, and when the
\* k-th write fails returns an ErrorArtifact, writes no later one, and leaves
\* the files of the first k-1 artifacts on disk.
C9_SaveMemoryByCount ==
    [][(/\ ops' = ops + 1
        /\ last'.op = "save_memory_artifacts_to_disk"
        /\ ~last'.out.raised)
          => LET arts == Namespace(last'.ns)
                 paths == NamedPaths(last', workdir)
                 k == Len(last'.targets)
             IN  IF last'.memory_name \notin MemoryNames
                 THEN last'.out.ret = ErrorArtifact("memory not found") /\ fs' = fs
                 ELSE IF Len(arts) = 0
                 THEN last'.out.ret = ErrorArtifact("no artifacts found") /\ fs' = fs
                 ELSE IF Len(arts) = 1
                 THEN /\ last'.targets = <<join3(workdir, last'.dir_name, last'.file_name)>>
                      /\ last'.out.ret \in {Saved, WriteError}
                      /\ last'.out.ret = Saved =>
                            /\ IsFile(fs', Location(last'.targets[1]))
                            /\ fs'[Location(last'.targets[1])].data = Bytes(arts[1].value)
                      /\ \A loc \in DOMAIN fs' :
                            IsFile(fs', loc) /\ loc # Location(last'.targets[1])
                               => loc \in DOMAIN fs /\ fs'[loc] = fs[loc]
                 ELSE /\ k >= 1
                      /\ last'.targets = SubSeq(paths, 1, k)
                      /\ last'.out.ret \in {Saved, WriteError}
                      /\ last'.out.ret = Saved =>
                            /\ k = Len(arts)
                            /\ \A i \in 1..k :
                                  /\ IsFile(fs', Location(paths[i]))
                                  /\ LastAt(paths, k, i) =>
                                        fs'[Location(paths[i])].data = Bytes(arts[i].value)
                      /\ last'.out.ret = WriteError =>
                            \A i \in 1..(k - 1) :
                                /\ IsFile(fs', Location(paths[i]))
                                /\ LastAt(paths, k, i) =>
                                      fs'[Location(paths[i])].data = Bytes(arts[i].value)
                      /\ \A loc \in DOMAIN fs' :
                            IsFile(fs', loc) /\ (\A i \in 1..k : loc # Location(paths[i]))
                               => loc \in DOMAIN fs /\ fs'[loc] = fs[loc]]_vars

\* The second write of a namespace of two failed: the call returned an
\* ErrorArtifact and the first artifact's file is on disk.
C9_Witness ==
    /\ last.op = "save_memory_artifacts_to_disk"
    /\ ~last.out.raised
    /\ last.ns = "bad"
    /\ last.dir_name = Str_d
    /\ last.file_name = Str_f
    /\ workdir = Str_w
    /\ last.out.ret = WriteError
    /\ Len(last.targets) = 2
    /\ IsFile(fs, <<Str_rel, Str_d, <<"a", "-", "f">>>>)
    /\ fs[<<Str_rel, Str_d, <<"a", "-", "f">>>>].data = <<195, 169>>

\* C10 as claimed: after any saves, every file a save has written holds the
\* value of the last successful save of it, and every other file holds what
\* it held before.
C10_LastSuccessfulWriteWins ==
    /\ \A loc \in DOMAIN written :
          written[loc].succeeded => IsFile(fs, loc) /\ fs[loc].data = written[loc].data
    /\ \A loc \in DOMAIN fs \ DOMAIN written :
          IsFile(fs, loc) => loc \in DOMAIN InitFS /\ fs[loc] = InitFS[loc]

\* C10 as amended: after any saves, every file a save has opened holds the
\* value of the last save that opened it when that save wrote its value, and
\* is empty when that save failed after opening it (a value that cannot be
\* encoded or is not bytes); every other file holds what it held before.
\* Each write replaces the content, and two artifacts of one name in one call
\* leave one file with the later value.
C10_LastOpeningWriteWins ==
    /\ \A loc \in DOMAIN written :
          /\ IsFile(fs, loc)
          /\ fs[loc].data = IF written[loc].ok THEN written[loc].data ELSE <<>>
    /\ \A loc \in DOMAIN fs \ DOMAIN written :
          IsFile(fs, loc) => loc \in DOMAIN InitFS /\ fs[loc] = InitFS[loc]

\* Two artifacts named a were saved to one file in one call, after an earlier
\* save had opened another file, and the file holds the second artifact's
\* value.
C10_Witness ==
    /\ last.op = "save_memory_artifacts_to_disk"
    /\ last.ns = "dup"
    /\ ~last.out.raised
    /\ last.out.ret = Saved
    /\ ops = 2
    /\ Len(last.log) = 2
    /\ last.log[1].loc = last.log[2].loc
    /\ fs[last.log[2].loc].data = <<195, 169>>
    /\ Cardinality(DOMAIN written) >= 2
====
